---- MODULE Spec2Model ----
(***************************************************************************)
(* A model of the streamed chat pipeline of this repository:               *)
(*                                                                         *)
(*   - the route handler POST /api/chat (src/app/api/chat/route.ts), which *)
(*     validates the request, hands history and prompt to the generation   *)
(*     SDK and forwards the generated fragments on a ReadableStream;       *)
(*   - the ChatBox component (src/app/components/ChatBox.tsx), which posts *)
(*     the conversation, reads the streamed response and keeps the         *)
(*     conversation in React state.                                        *)
(*                                                                         *)
(* The generation SDK, the network and the stream implementation are the   *)
(* environment.  The ReadableStream follows the WHATWG Streams standard:   *)
(* enqueue()/close() throw once the stream is no longer readable or a      *)
(* close was requested, error() empties the queue, cancel() closes the     *)
(* stream and empties the queue.  Texts are sequences of characters and    *)
(* travel as UTF-8 bytes.                                                  *)
(*                                                                         *)
(* ChatBox posts { messages } to an /api/chat endpoint and reads a streamed *)
(* text response.  Its fetch is served here by the route handler of this   *)
(* repository, which implements that endpoint.  The SDK calls              *)
(* getGenerativeModel and startChat are taken to return; sendMessageStream *)
(* may reject, and result.stream may yield, end or fail at every turn.     *)
(***************************************************************************)
EXTENDS Integers, Sequences, FiniteSets, TLC

\* ------------------------------------------------------------------ bounds

\* Requests the model follows (ChatBox fetches and direct posts together).
MaxReq == 2
\* Fragments one upstream generation stream yields at most.
MaxFrags == 2

Req == 1..MaxReq

\* ------------------------------------------------------------------- texts

\* A text is a sequence of characters.  "E" stands for a character of two
\* UTF-8 bytes (U+00E9), "SORRY" for the fixed apology text as one symbol.
Chars == {"a", "E", "q", " "}

Utf8(c) ==
  CASE c = "a" -> <<97>>
    [] c = "q" -> <<113>>
    [] c = " " -> <<32>>
    [] c = "E" -> <<195, 169>>
    [] OTHER   -> <<239, 191, 189>>

RECURSIVE encode(_)
\* TextEncoder.encode: the UTF-8 bytes of a text.
encode(text) ==
  IF text = <<>> THEN <<>> ELSE Utf8(Head(text)) \o encode(Tail(text))

RECURSIVE decode(_)
\* TextDecoder.decode(value) without {stream: true}: every call starts afresh,
\* so a byte sequence cut inside a character decodes to U+FFFD.
decode(value) ==
  IF value = <<>> THEN <<>>
  ELSE IF Head(value) = 97 THEN <<"a">> \o decode(Tail(value))
  ELSE IF Head(value) = 113 THEN <<"q">> \o decode(Tail(value))
  ELSE IF Head(value) = 32 THEN <<" ">> \o decode(Tail(value))
  ELSE IF Head(value) = 195 /\ Len(value) >= 2 /\ value[2] = 169
       THEN <<"E">> \o decode(Tail(Tail(value)))
  ELSE <<"U+FFFD">> \o decode(Tail(value))

RECURSIVE trim(_)
\* String.prototype.trim: the text without its leading and trailing blanks.
trim(s) ==
  IF s # <<>> /\ Head(s) = " " THEN trim(Tail(s))
  ELSE IF s # <<>> /\ s[Len(s)] = " " THEN trim(SubSeq(s, 1, Len(s) - 1))
  ELSE s

\* The fixed text ChatBox shows when a request fails.
Apology == <<"SORRY">>

\* The texts a generation chunk can carry (chunk.text()), the empty text
\* included.
Frags == {<<>>, <<"a">>, <<"E">>}

\* ---------------------------------------------------------------- messages

Message(role, content) == [role |-> role, content |-> content]

U(t) == Message("user", t)
A(t) == Message("assistant", t)

\* A JSON value in the position of the "messages" field.
Undefined   == [tag |-> "undefined", items |-> <<>>]
JsonNull    == [tag |-> "null", items |-> <<>>]
JsonString  == [tag |-> "string", items |-> <<>>]
JsonEmptyStr == [tag |-> "emptystring", items |-> <<>>]
JsonObject  == [tag |-> "object", items |-> <<>>]
JsonArray(items) == [tag |-> "array", items |-> items]

\* JavaScript truthiness of such a value.
Truthy(v) == v.tag \notin {"undefined", "null", "emptystring"}
IsArray(v) == v.tag = "array"

\* A request body: text that does not parse, the JSON value null, or a JSON
\* value whose "messages" property is `messages` (Undefined when absent).
BodyInvalid == [kind |-> "invalid", messages |-> Undefined]
BodyNull    == [kind |-> "null", messages |-> Undefined]
BodyValue(m) == [kind |-> "value", messages |-> m]
NoBody      == [kind |-> "none", messages |-> Undefined]

\* The bodies a client other than ChatBox posts.
DirectBodies ==
  { BodyInvalid, BodyNull,
    BodyValue(Undefined), BodyValue(JsonNull), BodyValue(JsonString),
    BodyValue(JsonEmptyStr), BodyValue(JsonObject),
    BodyValue(JsonArray(<<>>)),
    BodyValue(JsonArray(<<U(<<"q">>)>>)),
    BodyValue(JsonArray(<<U(<<"q">>), A(<<"a">>), U(<<"E">>)>>)) }

\* ----------------------------------------------------- route.ts, pure parts

\* Array.prototype.slice(0, -1): every element but the last.
SliceButLast(items) ==
  IF Len(items) = 0 THEN <<>> ELSE SubSeq(items, 1, Len(items) - 1)

\* A variant that hands the role on unmapped.
MapRoleKept(role) == role

\* msg.role === "user" ? "user" : "model"
MapRole(role) == IF role = "user" THEN "user" ELSE "model"

\* One history entry: { role, parts: [{ text: msg.content }] }.
HistoryEntry(msg) == [role |-> MapRole(msg.role), text |-> msg.content]

\* messages.slice(0, -1).map(...)
BuildHistory(items) ==
  LET init == SliceButLast(items)
  IN  [i \in 1..Len(init) |-> HistoryEntry(init[i])]

\* A variant of the validation without the Array.isArray test.
InvalidMessagesFalsyOnly(v) == ~Truthy(v)

\* !messages || !Array.isArray(messages)
InvalidMessages(v) == ~Truthy(v) \/ ~IsArray(v)

\* ------------------------------------------- the response stream (WHATWG)

NoStream == [state |-> "none", queue |-> <<>>, closeRequested |-> FALSE]
NewStream == [state |-> "readable", queue |-> <<>>, closeRequested |-> FALSE]

\* ReadableStreamDefaultControllerCanCloseOrEnqueue
CanCloseOrEnqueue(s) == s.state = "readable" /\ ~s.closeRequested

\* controller.enqueue(chunk), when it does not throw: the start() of the
\* handler never looks at desiredSize, so the chunk is always queued.
Enqueue(s, chunk) == [s EXCEPT !.queue = Append(@, chunk)]

\* controller.close(), when it does not throw: the stream closes once the
\* queue is drained.
Close(s) ==
  IF s.queue = <<>> THEN [s EXCEPT !.state = "closed"]
  ELSE [s EXCEPT !.closeRequested = TRUE]

\* controller.error(e): nothing on a stream that is not readable; else the
\* queue is reset and the stream is errored.
Error(s) ==
  IF s.state # "readable" THEN s
  ELSE [state |-> "errored", queue |-> <<>>, closeRequested |-> s.closeRequested]

\* reader.cancel() / the client going away: the queue is reset and the stream
\* is closed.  The underlying source of the handler has no cancel().
CancelStream(s) ==
  IF s.state # "readable" THEN s
  ELSE [state |-> "closed", queue |-> <<>>, closeRequested |-> s.closeRequested]

\* The stream after its consumer took `k` bytes of the chunk at the head of
\* the queue (the whole chunk when k is its length).
TakeBytes(s, k) ==
  LET head == Head(s.queue)
      rest == IF k >= Len(head) THEN Tail(s.queue)
              ELSE <<SubSeq(head, k + 1, Len(head))>> \o Tail(s.queue)
  IN  [s EXCEPT !.queue = rest,
                !.state = IF rest = <<>> /\ s.closeRequested
                          THEN "closed" ELSE @]

\* ------------------------------------------------------------------- state

VARIABLES
  nreq,             \* requests posted so far
  origin,           \* origin[r]: "none", "chatbox", "direct", or "lost"
  body,             \* body[r]: the request body
  pc,               \* pc[r]: where the handler of request r stands
  status,           \* status[r]: HTTP status of the response, 0 before it
  calls,            \* calls[r]: the SDK calls made for r, in order
  history,          \* history[r]: the history given to model.startChat
  latestMessage,    \* latestMessage[r]: the prompt given to sendMessageStream
  upstream,         \* upstream[r]: result.stream: "none", "open", "ended",
                    \*   "failed", or "returned" (the loop left it early)
  pulled,           \* pulled[r]: the fragments taken from result.stream
  sent,             \* sent[r]: the fragments enqueued on the response stream
  stream,           \* stream[r]: the response ReadableStream
  errors,           \* errors[r]: terminal errors signalled (500, controller.error)
  cancelled,        \* cancelled[r]: the client cancelled the response stream
  messages,         \* ChatBox: the conversation (React state)
  input,            \* ChatBox: the text of the input box
  isLoading,        \* ChatBox: a request is in flight
  cpc,              \* ChatBox: where sendMessage stands
  creq,             \* ChatBox: the request sendMessage waits for
  newMessages,      \* ChatBox: sendMessage's local newMessages
  assistantMessage  \* ChatBox: sendMessage's local assistantMessage

server == <<nreq, origin, body, pc, status, calls, history, latestMessage,
            upstream, pulled, sent, stream, errors, cancelled>>
chatbox == <<messages, input, isLoading, cpc, creq, newMessages,
             assistantMessage>>
vars == <<server, chatbox>>

Init ==
  /\ nreq = 0
  /\ origin = [r \in Req |-> "none"]
  /\ body = [r \in Req |-> NoBody]
  /\ pc = [r \in Req |-> "idle"]
  /\ status = [r \in Req |-> 0]
  /\ calls = [r \in Req |-> <<>>]
  /\ history = [r \in Req |-> <<>>]
  /\ latestMessage = [r \in Req |-> <<>>]
  /\ upstream = [r \in Req |-> "none"]
  /\ pulled = [r \in Req |-> <<>>]
  /\ sent = [r \in Req |-> <<>>]
  /\ stream = [r \in Req |-> NoStream]
  /\ errors = [r \in Req |-> 0]
  /\ cancelled = [r \in Req |-> FALSE]
  /\ messages = <<>>
  /\ input = <<>>
  /\ isLoading = FALSE
  /\ cpc = "idle"
  /\ creq = 0
  /\ newMessages = <<>>
  /\ assistantMessage = <<>>

\* ------------------------------------------------------- route.ts: POST

\* return NextResponse.json({ error }, { status }) before any stream exists:
\* 400 from the validation, 500 from the outer catch.
Respond(r, code) ==
  /\ status' = [status EXCEPT ![r] = code]
  /\ pc' = [pc EXCEPT ![r] = IF code = 400 THEN "rejected" ELSE "errored"]
  /\ errors' = [errors EXCEPT ![r] = IF code = 500 THEN @ + 1 ELSE @]

\* POST from its entry to the await of chat.sendMessageStream.
\* testProxyConnection() only logs and never throws; it changes no state.
POST(r) ==
  /\ origin[r] \in {"chatbox", "direct"}
  /\ pc[r] = "idle"
  /\ LET b == body[r]
         m == b.messages
     IN
     IF b.kind \in {"invalid", "null"} THEN
          \* req.json() rejects, or destructuring null throws a TypeError
          /\ Respond(r, 500)
          /\ UNCHANGED <<calls, history, latestMessage>>
     ELSE IF InvalidMessages(m) THEN
          /\ Respond(r, 400)
          /\ UNCHANGED <<calls, history, latestMessage>>
     ELSE IF Len(m.items) = 0 THEN
          \* messages[messages.length - 1] is undefined: .content throws
          /\ calls' = [calls EXCEPT ![r] = <<"getGenerativeModel", "startChat">>]
          /\ history' = [history EXCEPT ![r] = BuildHistory(m.items)]
          /\ Respond(r, 500)
          /\ UNCHANGED latestMessage
     ELSE
          /\ calls' = [calls EXCEPT ![r] =
                         <<"getGenerativeModel", "startChat", "sendMessageStream">>]
          /\ history' = [history EXCEPT ![r] = BuildHistory(m.items)]
          /\ latestMessage' = [latestMessage EXCEPT ![r] = m.items[Len(m.items)].content]
          /\ pc' = [pc EXCEPT ![r] = "sending"]
          /\ UNCHANGED <<status, errors>>
  /\ UNCHANGED <<nreq, origin, body, upstream, pulled, sent, stream, cancelled,
                 chatbox>>

\* chat.sendMessageStream resolves: the stream is built, start() runs up to
\* its first await, and the Response (status 200) is returned.
SendResolved(r) ==
  /\ pc[r] = "sending"
  /\ pc' = [pc EXCEPT ![r] = "streaming"]
  /\ stream' = [stream EXCEPT ![r] = NewStream]
  /\ status' = [status EXCEPT ![r] = 200]
  /\ upstream' = [upstream EXCEPT ![r] = "open"]
  /\ UNCHANGED <<nreq, origin, body, calls, history, latestMessage, pulled,
                 sent, errors, cancelled, chatbox>>

\* A variant that calls chat.sendMessageStream once more after a rejection
\* before it gives up.
SendRejectedRetry(r) ==
  /\ pc[r] = "sending"
  /\ IF Len(calls[r]) < 4
     THEN /\ calls' = [calls EXCEPT ![r] = Append(@, "sendMessageStream")]
          /\ UNCHANGED <<pc, status, errors, upstream>>
     ELSE /\ Respond(r, 500)
          /\ upstream' = [upstream EXCEPT ![r] = "failed"]
          /\ UNCHANGED calls
  /\ UNCHANGED <<nreq, origin, body, history, latestMessage, pulled, sent,
                 stream, cancelled, chatbox>>

\* chat.sendMessageStream rejects: the outer catch answers 500.
SendRejected(r) ==
  /\ pc[r] = "sending"
  /\ Respond(r, 500)
  /\ upstream' = [upstream EXCEPT ![r] = "failed"]
  /\ UNCHANGED <<nreq, origin, body, calls, history, latestMessage, pulled,
                 sent, stream, cancelled, chatbox>>

\* A variant of the catch of start() that also closes the stream and lets the
\* handler finish as after a normal end, as a close() placed in a finally would.
StartCatchThenClose(r) ==
  /\ stream' = [stream EXCEPT ![r] = Error(@)]
  /\ errors' = [errors EXCEPT ![r] = @ + 1]
  /\ pc' = [pc EXCEPT ![r] = "done"]

\* A variant of the catch of start() that works on a controller kept in a
\* module-level variable shared by the requests: every open response stream
\* is errored.
StartCatchShared(r) ==
  /\ stream' = [q \in Req |-> Error(stream[q])]
  /\ errors' = [errors EXCEPT ![r] = @ + 1]
  /\ pc' = [pc EXCEPT ![r] = "errored"]

\* The catch of start(): controller.error(error).
StartCatch(r) ==
  /\ stream' = [stream EXCEPT ![r] = Error(@)]
  /\ errors' = [errors EXCEPT ![r] = @ + 1]
  /\ pc' = [pc EXCEPT ![r] = "errored"]

\* One turn of the for-await loop: result.stream yields a chunk, its text is
\* encoded and enqueued; enqueue throws on a stream that was cancelled.
StreamChunk(r) ==
  /\ pc[r] = "streaming"
  /\ upstream[r] = "open"
  /\ Len(pulled[r]) < MaxFrags
  /\ \E text \in Frags :
       /\ pulled' = [pulled EXCEPT ![r] = Append(@, text)]
       /\ IF CanCloseOrEnqueue(stream[r]) THEN
            /\ stream' = [stream EXCEPT ![r] = Enqueue(@, encode(text))]
            /\ sent' = [sent EXCEPT ![r] = Append(@, text)]
            /\ UNCHANGED <<pc, errors, upstream>>
          ELSE
            \* the throw leaves the loop, which returns the iterator
            /\ StartCatch(r)
            /\ upstream' = [upstream EXCEPT ![r] = "returned"]
            /\ UNCHANGED sent
  /\ UNCHANGED <<nreq, origin, body, status, calls, history, latestMessage,
                 cancelled, chatbox>>

\* A variant of the end of the loop without controller.close(): the loop is
\* left and the response stream stays open.
StreamEndNoClose(r) ==
  /\ pc[r] = "streaming"
  /\ upstream[r] = "open"
  /\ upstream' = [upstream EXCEPT ![r] = "ended"]
  /\ UNCHANGED <<nreq, origin, body, pc, status, calls, history, latestMessage,
                 pulled, sent, stream, errors, cancelled, chatbox>>

\* result.stream ends: controller.close(), which throws on a stream that was
\* cancelled.
StreamEnd(r) ==
  /\ pc[r] = "streaming"
  /\ upstream[r] = "open"
  /\ upstream' = [upstream EXCEPT ![r] = "ended"]
  /\ IF CanCloseOrEnqueue(stream[r]) THEN
       /\ stream' = [stream EXCEPT ![r] = Close(@)]
       /\ pc' = [pc EXCEPT ![r] = "done"]
       /\ UNCHANGED errors
     ELSE
       StartCatch(r)
  /\ UNCHANGED <<nreq, origin, body, status, calls, history, latestMessage,
                 pulled, sent, cancelled, chatbox>>

\* result.stream rejects, or chunk.text() throws: the catch of start().
StreamFail(r) ==
  /\ pc[r] = "streaming"
  /\ upstream[r] = "open"
  /\ upstream' = [upstream EXCEPT ![r] = "failed"]
  /\ StartCatch(r)
  /\ UNCHANGED <<nreq, origin, body, status, calls, history, latestMessage,
                 pulled, sent, cancelled, chatbox>>

\* ------------------------------------------------- a client other than ChatBox

DirectPost(b) ==
  /\ nreq < MaxReq
  /\ nreq' = nreq + 1
  /\ origin' = [origin EXCEPT ![nreq + 1] = "direct"]
  /\ body' = [body EXCEPT ![nreq + 1] = b]
  /\ UNCHANGED <<pc, status, calls, history, latestMessage, upstream, pulled, sent,
                 stream, errors, cancelled, chatbox>>

\* The client reads the chunk at the head of the response stream.
DirectRead(r) ==
  /\ origin[r] = "direct"
  /\ stream[r].queue # <<>>
  /\ stream' = [stream EXCEPT ![r] = TakeBytes(@, Len(Head(@.queue)))]
  /\ UNCHANGED <<nreq, origin, body, pc, status, calls, history, latestMessage,
                 upstream, pulled, sent, errors, cancelled, chatbox>>

\* The client disconnects: the response stream is cancelled.
DirectCancel(r) ==
  /\ origin[r] = "direct"
  /\ stream[r].state = "readable"
  /\ ~cancelled[r]
  /\ stream' = [stream EXCEPT ![r] = CancelStream(@)]
  /\ cancelled' = [cancelled EXCEPT ![r] = TRUE]
  /\ UNCHANGED <<nreq, origin, body, pc, status, calls, history, latestMessage,
                 upstream, pulled, sent, errors, chatbox>>

\* ------------------------------------------------------------ ChatBox.tsx

\* What the user can type into the input box.
Inputs == {<<" ">>, <<"q">>}

\* onChange of the textarea (disabled while isLoading): setInput(value).
SetInput(value) ==
  /\ ~isLoading
  /\ input # value
  /\ input' = value
  /\ UNCHANGED <<server, messages, isLoading, cpc, creq, newMessages,
                 assistantMessage>>

\* A variant of sendMessage that posts the conversation of the render,
\* { messages }, instead of newMessages.
sendMessageStale ==
  /\ ~(trim(input) = <<>> \/ isLoading)
  /\ nreq < MaxReq
  /\ LET userMessage == U(input)
         next == Append(messages, userMessage)
     IN  /\ newMessages' = next
         /\ messages' = next
         /\ body' = [body EXCEPT ![nreq + 1] = BodyValue(JsonArray(messages))]
  /\ input' = <<>>
  /\ isLoading' = TRUE
  /\ nreq' = nreq + 1
  /\ origin' = [origin EXCEPT ![nreq + 1] = "chatbox"]
  /\ creq' = nreq + 1
  /\ cpc' = "fetching"
  /\ assistantMessage' = <<>>
  /\ UNCHANGED <<pc, status, calls, history, latestMessage, upstream, pulled, sent,
                 stream, errors, cancelled>>

\* A variant of sendMessage without setIsLoading(true).
sendMessageNoLoading ==
  /\ ~(trim(input) = <<>> \/ isLoading)
  /\ nreq < MaxReq
  /\ LET userMessage == U(input)
         next == Append(messages, userMessage)
     IN  /\ newMessages' = next
         /\ messages' = next
         /\ body' = [body EXCEPT ![nreq + 1] = BodyValue(JsonArray(next))]
  /\ input' = <<>>
  /\ nreq' = nreq + 1
  /\ origin' = [origin EXCEPT ![nreq + 1] = "chatbox"]
  /\ creq' = nreq + 1
  /\ cpc' = "fetching"
  /\ assistantMessage' = <<>>
  /\ UNCHANGED <<pc, status, calls, history, latestMessage, upstream, pulled, sent,
                 stream, errors, cancelled, isLoading>>

\* sendMessage up to the await of fetch: the user turn is appended, the input
\* is emptied, isLoading is set and { messages: newMessages } is posted.
\* A send event while isLoading is true or the trimmed input is empty returns
\* at once and changes nothing.
sendMessage ==
  /\ ~(trim(input) = <<>> \/ isLoading)
  /\ nreq < MaxReq
  /\ LET userMessage == U(input)
         next == Append(messages, userMessage)
     IN  /\ newMessages' = next
         /\ messages' = next
         /\ body' = [body EXCEPT ![nreq + 1] = BodyValue(JsonArray(next))]
  /\ input' = <<>>
  /\ isLoading' = TRUE
  /\ nreq' = nreq + 1
  /\ origin' = [origin EXCEPT ![nreq + 1] = "chatbox"]
  /\ creq' = nreq + 1
  /\ cpc' = "fetching"
  /\ assistantMessage' = <<>>
  /\ UNCHANGED <<pc, status, calls, history, latestMessage, upstream, pulled, sent,
                 stream, errors, cancelled>>

\* A variant of the catch of sendMessage with setIsLoading(false) at the end
\* of the try block instead of in a finally: a failure leaves isLoading set.
CatchNoReset ==
  /\ messages' = Append(newMessages, A(Apology))
  /\ isLoading' = isLoading
  /\ cpc' = "idle"

\* The catch and finally of sendMessage: the conversation becomes newMessages
\* followed by the fixed apology, and isLoading is reset.
Catch ==
  /\ messages' = Append(newMessages, A(Apology))
  /\ isLoading' = FALSE
  /\ cpc' = "idle"

\* fetch rejects: the network fails and the request never reaches the handler.
FetchRejected ==
  /\ cpc = "fetching"
  /\ pc[creq] = "idle"
  /\ origin' = [origin EXCEPT ![creq] = "lost"]
  /\ Catch
  /\ UNCHANGED <<nreq, body, pc, status, calls, history, latestMessage, upstream, pulled,
                 sent, stream, errors, cancelled, input, creq, newMessages,
                 assistantMessage>>

\* fetch resolves with the response: a response that is not ok throws, else
\* the reader is taken from response.body.
FetchResolved ==
  /\ cpc = "fetching"
  /\ status[creq] # 0
  /\ IF status[creq] # 200 THEN Catch
     ELSE /\ cpc' = "reading"
          /\ UNCHANGED <<messages, isLoading>>
  /\ UNCHANGED <<server, input, creq, newMessages, assistantMessage>>

\* reader.read() resolves with bytes: they are decoded on their own, appended
\* to assistantMessage, and the conversation is set again.  The transport may
\* deliver a chunk of the response in pieces.
ReadValue ==
  /\ cpc = "reading"
  /\ stream[creq].queue # <<>>
  /\ LET head == Head(stream[creq].queue)
     IN  \E k \in (IF head = <<>> THEN {0} ELSE 1..Len(head)) :
           LET value == SubSeq(head, 1, k)
               text == decode(value)
           IN  /\ stream' = [stream EXCEPT ![creq] = TakeBytes(@, k)]
               /\ assistantMessage' = assistantMessage \o text
               /\ messages' = Append(newMessages, A(assistantMessage \o text))
  /\ UNCHANGED <<nreq, origin, body, pc, status, calls, history, latestMessage,
                 upstream, pulled, sent, errors, cancelled, input, isLoading, cpc, creq,
                 newMessages>>

\* reader.read() resolves with done: the loop ends, finally resets isLoading.
ReadDone ==
  /\ cpc = "reading"
  /\ stream[creq].state = "closed"
  /\ isLoading' = FALSE
  /\ cpc' = "idle"
  /\ UNCHANGED <<server, messages, input, creq, newMessages, assistantMessage>>

\* reader.read() rejects, the response stream being errored.
ReadRejected ==
  /\ cpc = "reading"
  /\ stream[creq].state = "errored"
  /\ Catch
  /\ UNCHANGED <<server, input, creq, newMessages, assistantMessage>>

\* clearChat, behind the button shown while the conversation is not empty.
clearChat ==
  /\ Len(messages) > 0
  /\ messages' = <<>>
  /\ UNCHANGED <<server, input, isLoading, cpc, creq, newMessages,
                 assistantMessage>>

\* ------------------------------------------------------------ specification

\* The steps of the handler of request r.
Handler(r) ==
  \/ POST(r)
  \/ SendResolved(r)
  \/ SendRejected(r)
  \/ StreamChunk(r)
  \/ StreamEnd(r)
  \/ StreamFail(r)

\* The route handler serving clients that post any body, read at any speed
\* and may disconnect.
Next ==
  \/ \E b \in DirectBodies : DirectPost(b)
  \/ \E r \in Req : Handler(r)
  \/ \E r \in Req : DirectRead(r)
  \/ \E r \in Req : DirectCancel(r)

Spec == Init /\ [][Next]_vars

\* The handler of a request runs on: the request is dispatched, the promise of
\* sendMessageStream settles, and result.stream yields, ends or fails at each
\* turn of the loop.  Nothing is assumed of the clients.
HandlerRuns == \A r \in Req : WF_vars(Handler(r))

SpecLive == Spec /\ HandlerRuns

\* A ChatBox session served by the route handler.
NextChat ==
  \/ \E value \in Inputs : SetInput(value)
  \/ sendMessage
  \/ FetchRejected
  \/ FetchResolved
  \/ ReadValue
  \/ ReadDone
  \/ ReadRejected
  \/ clearChat
  \/ \E r \in Req : Handler(r)

SpecChat == Init /\ [][NextChat]_vars

\* sendMessage runs on after each await: the promise of fetch settles, and
\* each reader.read() settles once the response stream has a chunk, is closed
\* or is errored.
SendMessageRuns ==
  WF_vars(FetchRejected \/ FetchResolved \/ ReadValue \/ ReadDone \/ ReadRejected)

SpecChatLive == SpecChat /\ HandlerRuns /\ SendMessageRuns

\* ------------------------------------------------------------------ helpers

IsPrefix(s, t) == Len(s) <= Len(t) /\ SubSeq(t, 1, Len(s)) = s

Count(seq, x) == Cardinality({i \in 1..Len(seq) : seq[i] = x})

Terminal == {"done", "errored", "rejected"}

\* ----------------------------------------------------------------------- C1

\* The transitions claim C1 lists.
ListedTransitions ==
  { <<"idle", "sending">>, <<"sending", "streaming">>, <<"streaming", "done">>,
    <<"sending", "errored">>, <<"streaming", "errored">> }

\* C1 as stated: every request follows only IDLE -> SENDING -> STREAMING ->
\* DONE, with ERRORED (HTTP 500 or controller.error) entered only from SENDING
\* or STREAMING.
C1_OnlyListedTransitions ==
  [][\A r \in Req :
       pc'[r] # pc[r] => <<pc[r], pc'[r]>> \in ListedTransitions]_vars

\* One step of the system, seen from request r, under the amended C1.
C1_Step(r) ==
  /\ pc'[r] # pc[r] =>
       <<pc[r], pc'[r]>> \in
         ListedTransitions \cup {<<"idle", "errored">>, <<"idle", "rejected">>}
  /\ (pc[r] = "idle" /\ pc'[r] = "sending") =>
       /\ Count(calls'[r], "sendMessageStream") = 1
       /\ status'[r] = 0
  /\ (pc[r] = "sending" /\ pc'[r] = "streaming") =>
       /\ status'[r] = 200
       /\ stream'[r].state = "readable"
  /\ (pc[r] = "streaming" /\ pc'[r] = "done") =>
       /\ stream[r].state = "readable"
       /\ stream'[r].state = "closed" \/ stream'[r].closeRequested
  /\ (pc[r] \in {"idle", "sending"} /\ pc'[r] = "errored") =>
       /\ status'[r] = 500
       /\ stream'[r].state = "none"
  /\ (pc[r] = "streaming" /\ pc'[r] = "errored") =>
       /\ status'[r] = 200
       /\ stream'[r].state \in {"errored", "closed"}
       /\ stream'[r].queue = <<>>
  /\ (pc[r] = "idle" /\ pc'[r] = "rejected") =>
       /\ status'[r] = 400
       /\ calls'[r] = <<>>
  /\ pc[r] \in Terminal =>
       /\ pc'[r] = pc[r]
       /\ sent'[r] = sent[r]
       /\ pulled'[r] = pulled[r]
       /\ errors'[r] = errors[r]
       /\ status'[r] = status[r]
       /\ Len(stream'[r].queue) <= Len(stream[r].queue)

\* C1, amended: every request follows only IDLE -> SENDING -> STREAMING ->
\* DONE, with ERRORED entered from IDLE (HTTP 500, before sendMessageStream is
\* called), from SENDING (HTTP 500) or from STREAMING (controller.error), and
\* REJECTED (HTTP 400) entered from IDLE.  DONE, ERRORED and REJECTED are
\* terminal: after them no fragment is pulled or enqueued and nothing else
\* changes state, and no request is both DONE and ERRORED.
C1_Transitions ==
  /\ [](\A r \in Req :
          /\ pc[r] = "done" => errors[r] = 0 /\ status[r] = 200
          /\ pc[r] = "errored" => errors[r] = 1
          /\ pc[r] = "rejected" => errors[r] = 0)
  /\ [][\A r \in Req : C1_Step(r)]_vars

\* C1, witness: one request ended DONE after two fragments while another went
\* from STREAMING to ERRORED.
C1_Witness ==
  \E r1, r2 \in Req :
    /\ pc[r1] = "done" /\ Len(sent[r1]) >= 2
    /\ pc[r2] = "errored" /\ status[r2] = 200 /\ Len(sent[r2]) >= 1

\* ----------------------------------------------------------------------- C2

\* The partial answer ChatBox shows for the request in hand: the content of
\* the assistant turn that follows newMessages, empty while there is none.
Shown ==
  IF Len(messages) = Len(newMessages) + 1
     /\ messages[Len(messages)].role = "assistant"
  THEN messages[Len(messages)].content
  ELSE <<>>

\* C2: while a response is read, and when the reading ends (in an error too),
\* the partial answer only grows: a step that receives text shows the text
\* received so far, and no step other than clearChat makes the shown answer
\* shorter or replaces it.
C2_PartialAnswerOnlyGrows ==
  [][(cpc = "reading" /\ messages' # <<>>) =>
       /\ IsPrefix(Shown, Shown')
       /\ assistantMessage' # assistantMessage =>
            /\ Shown' = assistantMessage'
            /\ Len(assistantMessage') > Len(assistantMessage)]_vars

\* ----------------------------------------------------------------------- C3

\* C3: when the response stream of the request in hand has failed after the
\* response began (STREAMING -> ERRORED) and sendMessage has finished, the
\* text received before the failure is still the beginning of the assistant
\* turn of the conversation.
C3_StreamedTextKept ==
  ( /\ cpc = "idle"
    /\ creq # 0
    /\ pc[creq] = "errored"
    /\ status[creq] = 200
    /\ Len(messages) = Len(newMessages) + 1 )
  => IsPrefix(assistantMessage, messages[Len(messages)].content)

\* ----------------------------------------------------------------------- C4

\* C4: a generation failure never puts a fixed substitute answer into the
\* conversation: in a request that follows a failed generation, no model turn
\* of the history handed to the SDK is the fixed apology text, which the
\* model never emitted.
C4_HistoryIsModelText ==
  \A r \in Req :
    (\E q \in 1..(r - 1) : upstream[q] = "failed") =>
      \A i \in 1..Len(history[r]) :
        history[r][i].role = "model" => history[r][i].text # Apology

\* ----------------------------------------------------------------------- C6

\* The default high-water mark of a ReadableStream built without a strategy.
HighWaterMark == 1

\* C6: the chunks enqueued on a response stream and not yet read never exceed
\* a fixed bound (the stream's high-water mark), whatever the client's speed.
C6_QueueBounded ==
  \A r \in Req : Len(stream[r].queue) <= HighWaterMark

\* ----------------------------------------------------------------------- C7

\* C7: once the client has cancelled the response stream, no further fragment
\* is pulled from the upstream or enqueued on the response stream.
C7_NoPullAfterCancel ==
  [][\A r \in Req :
       cancelled[r] => pulled'[r] = pulled[r] /\ sent'[r] = sent[r]]_vars

\* ----------------------------------------------------------------------- C5

\* C5: no retry.  For every request chat.sendMessageStream is called at most
\* once, and only on the way from IDLE to SENDING; a request that failed has
\* signalled exactly one terminal error (one 500 response or one
\* controller.error); and ChatBox issues a request only from a sendMessage
\* that starts from rest and appends a new user turn, never from its catch.
C5_NoRetry ==
  /\ [](\A r \in Req :
          /\ Count(calls[r], "sendMessageStream") <= 1
          /\ errors[r] <= 1
          /\ upstream[r] = "failed" => pc[r] = "errored" /\ errors[r] = 1
          /\ pc[r] = "errored" => errors[r] = 1)
  /\ [][/\ \A r \in Req : calls'[r] # calls[r] => pc[r] = "idle"
        /\ nreq' # nreq =>
             /\ nreq' = nreq + 1
             /\ cpc = "idle" /\ cpc' = "fetching"
             /\ Len(messages') = Len(messages) + 1
             /\ messages'[Len(messages')].role = "user"]_vars

\* C5, witness: the generation of a ChatBox request failed after a fragment
\* was forwarded, and sendMessage has finished.
C5_Witness ==
  /\ creq # 0
  /\ cpc = "idle"
  /\ upstream[creq] = "failed"
  /\ Len(sent[creq]) >= 1
  /\ errors[creq] = 1

\* ----------------------------------------------------------------------- C8

\* The messages array of request r.
Items(r) == body[r].messages.items

\* C8: for every handled request with messages m1..mn, n >= 1, the history
\* handed to the SDK is m1..m(n-1) in order, texts unchanged and roles mapped
\* user -> user, assistant -> model, the prompt given to sendMessageStream is
\* the content of mn, and the request's messages are never changed after the
\* request was posted.
C8_HistoryAndPrompt ==
  /\ [](\A r \in Req :
          (IsArray(body[r].messages) /\ Len(Items(r)) >= 1 /\ pc[r] # "idle") =>
            /\ calls[r] = <<"getGenerativeModel", "startChat", "sendMessageStream">>
            /\ Len(history[r]) = Len(Items(r)) - 1
            /\ \A i \in 1..Len(history[r]) :
                 /\ history[r][i].text = Items(r)[i].content
                 /\ Items(r)[i].role = "user" => history[r][i].role = "user"
                 /\ Items(r)[i].role = "assistant" => history[r][i].role = "model"
            /\ latestMessage[r] = Items(r)[Len(Items(r))].content)
  /\ [][\A r \in Req : origin[r] # "none" => body'[r] = body[r]]_vars

\* C8, witness: a request of three turns (user, assistant, user) is streaming.
C8_Witness ==
  \E r \in Req :
    /\ pc[r] = "streaming"
    /\ Len(Items(r)) = 3
    /\ Items(r)[2].role = "assistant"
    /\ Len(history[r]) = 2
    /\ history[r][2].role = "model"

\* ----------------------------------------------------------------------- C9

\* Request r carries a single user turn and no history.
FirstTurnOnly(r) ==
  /\ body[r].kind = "value"
  /\ IsArray(body[r].messages)
  /\ Len(Items(r)) = 1
  /\ Items(r)[1].role = "user"

\* C9: a request that carries a single first user turn is accepted: once
\* handled, the chat was started with an empty history, the turn's content was
\* sent as the prompt, no error came before the generation call, and if the
\* upstream streamed and ended normally the request is DONE.
C9_FirstTurnAccepted ==
  \A r \in Req :
    (FirstTurnOnly(r) /\ pc[r] # "idle") =>
      /\ history[r] = <<>>
      /\ latestMessage[r] = Items(r)[1].content
      /\ calls[r] = <<"getGenerativeModel", "startChat", "sendMessageStream">>
      /\ pc[r] \notin {"rejected"}
      /\ upstream[r] = "ended" => pc[r] = "done"

\* ---------------------------------------------------------------------- C10

\* The body of request r parses as JSON.
ParsesAsJson(r) == body[r].kind \in {"value", "null"}

\* The messages field of request r is missing or is not an array.
MessagesMissingOrNotArray(r) ==
  \/ body[r].kind \in {"invalid", "null"}
  \/ body[r].kind = "value" /\ ~IsArray(body[r].messages)

\* No SDK call was made and no response stream was opened for request r.
NothingAttempted(r) ==
  /\ calls[r] = <<>>
  /\ stream[r].state = "none"
  /\ upstream[r] = "none"
  /\ pulled[r] = <<>>

\* C10 as stated: a handled request whose body is JSON and whose messages
\* field is missing or not an array was answered 400 with nothing attempted.
C10_Always400 ==
  \A r \in Req :
    (ParsesAsJson(r) /\ MessagesMissingOrNotArray(r) /\ pc[r] # "idle") =>
      status[r] = 400 /\ NothingAttempted(r)

\* C10, amended: a handled request whose messages field is missing or not an
\* array failed fast: it was answered 400, or 500 when the body is the JSON
\* value null or does not parse as JSON; no SDK call was made and no response
\* stream was opened.
C10_FailFast ==
  \A r \in Req :
    (origin[r] # "none" /\ MessagesMissingOrNotArray(r)) =>
      /\ NothingAttempted(r)
      /\ pc[r] \in {"idle", "rejected", "errored"}
      /\ pc[r] = "rejected" <=> status[r] = 400
      /\ pc[r] = "errored" <=> status[r] = 500
      /\ pc[r] # "idle" => (status[r] = 400 <=> body[r].kind = "value")

\* C10, witness: a request whose messages field is a string was answered 400
\* and a request whose body is null was answered 500.
C10_Witness ==
  \E r1, r2 \in Req :
    /\ body[r1] = BodyValue(JsonString) /\ status[r1] = 400
    /\ body[r2] = BodyNull /\ status[r2] = 500

\* ---------------------------------------------------------------------- C11

\* What the handler keeps for request r; all of it lives in locals of POST.
Own(r) ==
  <<pc[r], status[r], calls[r], history[r], latestMessage[r], upstream[r],
    pulled[r], sent[r], errors[r]>>

\* C11: concurrent requests are independent.  The history of a request is
\* built from its own messages, what it forwards is a prefix of what its own
\* upstream yielded, its outcome follows from its own upstream and its own
\* client (DONE only after its upstream ended with every fragment forwarded,
\* ERRORED after the response began only when its upstream failed or its
\* client went away); and a step of one request, a failure included, leaves
\* the state, the response stream and the outcome of every other request
\* as they were.
C11_Independent ==
  /\ [](\A r \in Req :
          /\ calls[r] # <<>> => history[r] = BuildHistory(Items(r))
          /\ IsPrefix(sent[r], pulled[r])
          /\ pc[r] = "done" => upstream[r] = "ended" /\ sent[r] = pulled[r]
          /\ (pc[r] = "errored" /\ status[r] = 200) =>
               upstream[r] = "failed" \/ cancelled[r])
  /\ [][\A r, q \in Req :
          (r # q /\ Own(q)' # Own(q)) =>
            /\ Own(r)' = Own(r)
            /\ stream'[r] = stream[r]
            /\ body'[r] = body[r]]_vars

\* C11, witness: one request has failed in mid-stream while another, posted
\* before that failure, still streams with a chunk waiting in its open stream.
C11_Witness ==
  \E r, q \in Req :
    /\ pc[r] = "errored" /\ upstream[r] = "failed" /\ Len(sent[r]) >= 1
    /\ pc[q] = "streaming" /\ stream[q].state = "readable"
    /\ Len(stream[q].queue) >= 1

\* ---------------------------------------------------------------------- C12

\* C12: given that the upstream settles (sendMessageStream resolves or
\* rejects, result.stream ends or fails), every request that reached SENDING
\* or STREAMING reaches DONE or ERRORED, whatever its client does; in DONE the
\* response stream is closed, or closes once the chunks enqueued are read, and
\* in ERRORED after the response began it is errored or was cancelled.
C12_Terminates ==
  /\ \A r \in Req :
       (pc[r] \in {"sending", "streaming"}) ~> (pc[r] \in {"done", "errored"})
  /\ [](\A r \in Req :
          /\ pc[r] = "done" =>
               \/ stream[r].state = "closed"
               \/ stream[r].closeRequested /\ stream[r].queue # <<>>
          /\ (pc[r] = "errored" /\ status[r] = 200) =>
               stream[r].state \in {"errored", "closed"})

\* C12, witness: a request is DONE after every fragment its upstream could
\* yield, while its client has read none of them.
C12_Witness ==
  \E r \in Req :
    /\ pc[r] = "done"
    /\ Len(pulled[r]) = MaxFrags
    /\ Len(stream[r].queue) = MaxFrags
    /\ stream[r].closeRequested

\* ---------------------------------------------------------------------- C13

\* What the handler has put on the response stream of request r, in order:
\* one part per fragment, the encoded text of chunk.text().  The handler
\* enqueues nothing else, and the headers of the Response name only the
\* content type and the transfer encoding.
Parts(r) ==
  [i \in 1..Len(sent[r]) |-> [kind |-> "text", bytes |-> encode(sent[r][i])]]

\* C13: a response that is DONE carries the list of cited sources: it was put
\* on the response stream after the last text fragment, before the close.
C13_SourcesBeforeDone ==
  \A r \in Req :
    pc[r] = "done" =>
      \E i \in 1..Len(Parts(r)) :
        /\ Parts(r)[i].kind = "sources"
        /\ \A j \in (i + 1)..Len(Parts(r)) : Parts(r)[j].kind # "text"

\* ---------------------------------------------------------------------- C14

RECURSIVE Concat(_)
\* The fragments of a sequence, joined in order.
Concat(frags) ==
  IF frags = <<>> THEN <<>> ELSE Head(frags) \o Concat(Tail(frags))

\* C14: when an exchange has completed without error (the upstream ended, the
\* response was read to its end, sendMessage has finished) and the
\* conversation was not cleared since, the conversation is the one sent
\* (the conversation before the send and the new user turn) followed by one
\* assistant turn whose content is the concatenation of every fragment the
\* upstream produced, for any number of fragments.
C14_ConversationIsConcatenation ==
  ( /\ cpc = "idle"
    /\ creq # 0
    /\ pc[creq] = "done"
    /\ messages # <<>> )
  => messages = Append(newMessages, A(Concat(pulled[creq])))

\* ---------------------------------------------------------------------- C15

\* C15: every failure of the handler becomes a response.  A request that is
\* past SENDING has a response; a failure before the response stream was
\* returned gave status 500 and no stream; a failure after the stream was
\* returned left the status at 200 and the stream errored, and status 500 is
\* never given once a stream exists.
C15_FailuresBecomeResponses ==
  \A r \in Req :
    /\ pc[r] \in {"streaming", "done", "errored", "rejected"} => status[r] # 0
    /\ (pc[r] = "errored" /\ stream[r].state = "none") => status[r] = 500
    /\ status[r] = 500 => pc[r] = "errored" /\ stream[r].state = "none"
    /\ (pc[r] = "errored" /\ stream[r].state # "none") =>
         status[r] = 200 /\ stream[r].state = "errored"

\* ---------------------------------------------------------------------- C16

\* C16: a handled request whose messages field is the empty array was treated
\* as a request whose messages field is not an array: it was answered 400 with
\* nothing attempted, and sendMessageStream was never called for it.
C16_EmptyArrayRejected ==
  \A r \in Req :
    (body[r] = BodyValue(JsonArray(<<>>)) /\ pc[r] # "idle") =>
      /\ status[r] = 400
      /\ NothingAttempted(r)
      /\ Count(calls[r], "sendMessageStream") = 0

\* ---------------------------------------------------------------------- C17

\* ChatBox has received the whole outcome of its request r: the request was
\* lost, or answered with an error status, or its response stream was read to
\* its end or to its error.
Finished(r) ==
  \/ origin[r] = "lost"
  \/ status[r] \in {400, 500}
  \/ status[r] = 200 /\ pc[r] \in {"done", "errored"}
                     /\ stream[r].state \in {"closed", "errored"}

\* C17: a ChatBox session has at most one request in flight.  isLoading is
\* true exactly while a sendMessage is under way; every request of the session
\* but the one in hand has finished; no step taken while isLoading is true or
\* the trimmed input is empty starts a fetch, appends a user turn or sets
\* isLoading; and a fetch starts only at rest, after the previous request has
\* finished.
C17_OneInFlight ==
  /\ [](/\ isLoading <=> cpc # "idle"
        /\ \A r \in 1..nreq :
             (origin[r] # "direct" /\ ~(r = creq /\ isLoading)) => Finished(r))
  /\ [][/\ (isLoading \/ trim(input) = <<>>) =>
             /\ nreq' = nreq
             /\ creq' = creq
             /\ newMessages' = newMessages
             /\ isLoading' => isLoading
        /\ nreq' # nreq =>
             /\ ~isLoading /\ isLoading'
             /\ creq' = nreq'
             /\ \A r \in 1..nreq : Finished(r)]_vars

\* C17, witness: the response of a second request is being read, the first
\* request having been streamed and finished before.
C17_Witness ==
  /\ nreq = 2
  /\ creq = 2
  /\ cpc = "reading"
  /\ isLoading
  /\ status[1] = 200
  /\ Len(sent[1]) >= 1

\* ---------------------------------------------------------------------- C18

\* C18: once the conversation is empty (at the start, or after clearChat) it
\* stays empty until the next sendMessage: the only step that makes an empty
\* conversation non-empty is a sendMessage that starts from rest.  A fragment
\* or an error of a response still under way does not bring turns back.
C18_ClearedStaysEmpty ==
  [][(messages = <<>> /\ messages' # <<>>) =>
       (cpc = "idle" /\ cpc' = "fetching" /\ nreq' = nreq + 1)]_vars

\* ---------------------------------------------------------------------- C19

\* C19: given that the request and its response stream settle, every
\* sendMessage that set isLoading resets it: whether the fetch rejects, the
\* response is not ok, the stream errors midway or the response is read to
\* its end, isLoading does not stay true.
C19_LoadingEnds == isLoading ~> ~isLoading

\* C19, witness: isLoading is false again after a first request whose fetch
\* was rejected and a second whose response stream failed in mid-stream.
C19_Witness ==
  /\ ~isLoading
  /\ origin[1] = "lost"
  /\ creq = 2
  /\ status[2] = 200
  /\ pc[2] = "errored"
  /\ Len(assistantMessage) >= 1

\* ---------------------------------------------------------------------- C20

\* C20: in every request body ChatBox sends, messages is a non-empty array
\* whose last element is a user turn with non-blank content; at the moment of
\* sending, that turn carries the input as typed and the elements before it
\* are the conversation as it stands, in order.
C20_RequestBody ==
  /\ [](\A r \in 1..nreq :
          origin[r] # "direct" =>
            /\ body[r].kind = "value"
            /\ IsArray(body[r].messages)
            /\ Len(Items(r)) >= 1
            /\ Items(r)[Len(Items(r))].role = "user"
            /\ trim(Items(r)[Len(Items(r))].content) # <<>>)
  /\ [][nreq' # nreq =>
          /\ SliceButLast(body'[nreq'].messages.items) = messages
          /\ body'[nreq'].messages.items[Len(messages) + 1] = U(input)
          /\ Len(body'[nreq'].messages.items) = Len(messages) + 1]_vars

\* C20, witness: a second request carries the first exchange (user turn,
\* streamed assistant turn) before its new user turn.
C20_Witness ==
  /\ nreq = 2
  /\ origin[2] = "chatbox"
  /\ Len(Items(2)) = 3
  /\ Items(2)[2].role = "assistant"
  /\ Items(2)[2].content # Apology
  /\ Items(2)[3].role = "user"

====
